---- MODULE Spec2Model ----
(***************************************************************************)
(* Model of the FHE key-value store of KVStore_commented.py (and its       *)
(* single-chunk sibling KVStore_4bit.py): the chunk codec, the lookup      *)
(* table keep_selected_lut, the three circuits _insert_impl, _replace_impl *)
(* and _query_impl evaluated on plain integers, and the store methods      *)
(* KeyValueDatabase.insert / replace / query that own the table.           *)
(*                                                                         *)
(* A table is a sequence of NUMBER_OF_ENTRIES rows, a row the flat         *)
(* sequence <<flag>> \o key chunks \o value chunks of the numpy array.     *)
(* Python indexes from 0, the sequences here from 1.                       *)
(***************************************************************************)
EXTENDS Integers, Sequences, FiniteSets, TLC

\* ---------------------------------------------------------------- sizes
\* Model bounds.  The program has CHUNK_SIZE = 4, NUMBER_OF_ENTRIES = 5 and
\* KEY_SIZE = VALUE_SIZE = 32 (KVStore_4bit.py: 4); the model keeps the shape
\* and scales the sizes down.
CHUNK_SIZE == 2
NUMBER_OF_ENTRIES == 2
NUMBER_OF_KEY_CHUNKS == 2
NUMBER_OF_VALUE_CHUNKS == 1
\* The callers pass the keys with one chunk in 0..MaxKeyDigit and the others 0,
\* and the values 0..MaxValue (clipped to the declared width).
MaxKeyDigit == 1
MaxValue == 3
\* Largest number of chunks of the widths the codec is exercised with.
MaxCodecChunks == 3

\* Number of entries of each half of keep_selected_lut (16 in the program,
\* which is 2**CHUNK_SIZE).
LUT_HALF == 2 ^ CHUNK_SIZE

KEY_SIZE == NUMBER_OF_KEY_CHUNKS * CHUNK_SIZE
VALUE_SIZE == NUMBER_OF_VALUE_CHUNKS * CHUNK_SIZE

ROW_LEN == 1 + NUMBER_OF_KEY_CHUNKS + NUMBER_OF_VALUE_CHUNKS

\* Indexers of a row.
FLAG == 1
KEY(row) == SubSeq(row, 2, 1 + NUMBER_OF_KEY_CHUNKS)
VALUE(row) == SubSeq(row, 2 + NUMBER_OF_KEY_CHUNKS, Len(row))

\* ---------------------------------------------------------------- codec
RECURSIVE Bin(_)
\* The binary digits of a non-negative number, most significant first.
Bin(n) == IF n < 2 THEN <<n>> ELSE Append(Bin(n \div 2), n % 2)

\* np.binary_repr(number, width) of a negative number: its two's complement,
\* padded with ones on the left to width.
binary_repr_negative(number, width) ==
    LET len == Len(Bin(0 - number))
        poswidth == IF 2 ^ (len - 1) = 0 - number THEN len - 1 ELSE len
        binary == Bin(2 ^ (poswidth + 1) + number)
    IN  IF Len(binary) >= width THEN binary
        ELSE [i \in 1..(width - Len(binary)) |-> 1] \o binary

\* np.binary_repr(number, width) of a non-negative number: the digits padded
\* with zeros on the left to width; a number too wide keeps all its digits.
binary_repr(number, width) ==
    IF number < 0 THEN binary_repr_negative(number, width)
    ELSE LET b == Bin(number)
         IN  IF Len(b) >= width THEN b
             ELSE [i \in 1..(width - Len(b)) |-> 0] \o b

RECURSIVE IntOfBits(_)
\* int(block, 2)
IntOfBits(block) ==
    IF Len(block) = 0 THEN 0
    ELSE 2 * IntOfBits(SubSeq(block, 1, Len(block) - 1)) + block[Len(block)]

Min(a, b) == IF a < b THEN a ELSE b

encode(number, width) ==
    LET repr == binary_repr(number, width)
        nblocks == (Len(repr) + CHUNK_SIZE - 1) \div CHUNK_SIZE
    IN  [j \in 1..nblocks |->
            IntOfBits(SubSeq(repr, (j - 1) * CHUNK_SIZE + 1,
                             Min(j * CHUNK_SIZE, Len(repr))))]

\* encode(number, width) for the numbers below 2^width, computed once.
EncodeTable(width) == [number \in 0..(2 ^ width - 1) |-> encode(number, width)]
EncodeKeyTable == EncodeTable(KEY_SIZE)
EncodeValueTable == EncodeTable(VALUE_SIZE)

encode_key(number) ==
    IF number \in DOMAIN EncodeKeyTable THEN EncodeKeyTable[number]
    ELSE encode(number, KEY_SIZE)
encode_value(number) ==
    IF number \in DOMAIN EncodeValueTable THEN EncodeValueTable[number]
    ELSE encode(number, VALUE_SIZE)

RECURSIVE decode_loop_littleendian(_, _)
\* decode_loop reading the chunks from the front: the reversal of the index
\* is forgotten.
decode_loop_littleendian(encoded_number, i) ==
    IF i >= Len(encoded_number) THEN 0
    ELSE (2 ^ (CHUNK_SIZE * i)) * encoded_number[i + 1]
         + decode_loop_littleendian(encoded_number, i + 1)

RECURSIVE decode_loop(_, _)
\* The loop of decode from index i on: the sum of
\* 2**(CHUNK_SIZE*i) * encoded_number[(len - i) - 1].
decode_loop(encoded_number, i) ==
    IF i >= Len(encoded_number) THEN 0
    ELSE (2 ^ (CHUNK_SIZE * i)) * encoded_number[Len(encoded_number) - i]
         + decode_loop(encoded_number, i + 1)

decode(encoded_number) == decode_loop(encoded_number, 0)

\* ---------------------------------------------------------------- lookup table
\* keep_selected_lut with its halves in the order the comment above the table
\* gives them: the identity first, the zeros second.
keep_selected_lut_identity_first ==
    [i \in 1..(2 * LUT_HALF) |-> IF i <= LUT_HALF THEN i - 1 ELSE 0]

\* cnp.LookupTable([0 for _ in range(16)] + [i for i in range(16)])
keep_selected_lut ==
    [i \in 1..(2 * LUT_HALF) |-> IF i <= LUT_HALF THEN 0 ELSE (i - 1) - LUT_HALF]

\* The table is defined on the indices 0..Len(keep_selected_lut) - 1. What a
\* lookup with any other index does is not fixed by the source: the call that
\* evaluates the circuit fails, or the lookup yields some entry of the table
\* (see LookupOutcomes and the *_raises operators).
LutInRange(index) == index >= 0 /\ index < Len(keep_selected_lut)

\* keep_selected_lut[index], with unread for an index outside the table.
LutReading(index, unread) ==
    IF LutInRange(index) THEN keep_selected_lut[index + 1] ELSE unread

\* keep_selected_lut[index] for the indices inside the table.
Lut(index) == LutReading(index, 0)

\* The outcomes of a circuit evaluation. With every index inside the table it
\* returns; with an index outside it either the call fails, or it returns
\* with some table entry read for the indices outside.
LookupOutcomes(outside) ==
    IF outside
    THEN {[raised |-> TRUE, unread |-> 0]}
         \cup {[raised |-> FALSE, unread |-> u] : u \in 0..(LUT_HALF - 1)}
    ELSE {[raised |-> FALSE, unread |-> 0]}

RECURSIVE SumSeq(_)
SumSeq(s) == IF Len(s) = 0 THEN 0 ELSE s[1] + SumSeq(Tail(s))

Bool2Int(b) == IF b THEN 1 ELSE 0

ZeroState == [i \in 1..NUMBER_OF_ENTRIES |-> [j \in 1..ROW_LEN |-> 0]]

\* The keys and values the callers pass, all within the declared widths.
KeyInputs ==
    {d * ((2 ^ CHUNK_SIZE) ^ j) :
        d \in 0..Min(MaxKeyDigit, 2 ^ CHUNK_SIZE - 1), j \in 0..(NUMBER_OF_KEY_CHUNKS - 1)}
ValueInputs == 0..Min(MaxValue, 2 ^ VALUE_SIZE - 1)

\* Keys and values that include some outside the declared widths: below 0
\* and one past the largest.
WideKeyInputs == {0 - 1, 0, 2 ^ KEY_SIZE}
WideValueInputs == {0 - 1, 1, 2 ^ VALUE_SIZE}

\* The circuits are compiled for a key of NUMBER_OF_KEY_CHUNKS chunks and a
\* value of NUMBER_OF_VALUE_CHUNKS chunks: arrays of another shape do not
\* broadcast against the state, and the call raises.
key_shape_raises(key) == Len(key) # NUMBER_OF_KEY_CHUNKS
value_shape_raises(value) == Len(value) # NUMBER_OF_VALUE_CHUNKS

\* ---------------------------------------------------------------- _insert_impl
RECURSIVE insert_selection_every_free(_, _, _)
\* insert_selection with the found bit left out of the packed index: every
\* entry with flag 0 is selected.
insert_selection_every_free(flags, i, found) ==
    IF i > Len(flags) THEN <<>>
    ELSE LET packed_flag_and_found == flags[i]
             is_selected == Bool2Int(packed_flag_and_found = 0)
         IN  <<is_selected>> \o insert_selection_every_free(flags, i + 1, found + is_selected)

RECURSIVE insert_selection(_, _, _)
\* The loop over the entries from entry i on, with the found bit so far:
\* selection[i] = (found * 2 + flags[i] == 0); found += selection[i].
insert_selection(flags, i, found) ==
    IF i > Len(flags) THEN <<>>
    ELSE LET packed_flag_and_found == (found * 2) + flags[i]
             is_selected == Bool2Int(packed_flag_and_found = 0)
         IN  <<is_selected>> \o insert_selection(flags, i + 1, found + is_selected)

\* The found accumulator of the loop on entering entry i: it has been
\* incremented by is_selected for every earlier entry.
insert_found(flags, i) ==
    SumSeq(SubSeq(insert_selection(flags, 1, 0), 1, i - 1))

\* packed_flag_and_found at entry i of the loop.
insert_packed(flags, i) == (insert_found(flags, i) * 2) + flags[i]

\* The indices _insert_impl looks up: selection * 2**CHUNK_SIZE + key (value).
insert_indices(st, key, value) ==
    LET selection == insert_selection([i \in 1..Len(st) |-> st[i][FLAG]], 1, 0)
    IN  {selection[i] * (2 ^ CHUNK_SIZE) + key[j] : i \in 1..Len(st), j \in 1..Len(key)}
        \cup
        {selection[i] * (2 ^ CHUNK_SIZE) + value[j] : i \in 1..Len(st), j \in 1..Len(value)}

insert_raises(st, key, value) ==
    \E index \in insert_indices(st, key, value) : ~LutInRange(index)

\* _insert_impl with the value update left unmasked: every row receives the
\* value chunks, selected or not.
_insert_impl_unmasked_value(st, key, value) ==
    LET flags == [i \in 1..Len(st) |-> st[i][FLAG]]
        selection == insert_selection(flags, 1, 0)
        state_update ==
            [i \in 1..Len(st) |->
                <<selection[i]>>
                \o [j \in 1..Len(key) |-> Lut(selection[i] * (2 ^ CHUNK_SIZE) + key[j])]
                \o value]
    IN  [i \in 1..Len(st) |-> [c \in 1..Len(st[i]) |-> st[i][c] + state_update[i][c]]]

_insert_impl(st, key, value) ==
    LET flags == [i \in 1..Len(st) |-> st[i][FLAG]]
        selection == insert_selection(flags, 1, 0)
        state_update ==
            [i \in 1..Len(st) |->
                <<selection[i]>>
                \o [j \in 1..Len(key) |-> Lut(selection[i] * (2 ^ CHUNK_SIZE) + key[j])]
                \o [j \in 1..Len(value) |-> Lut(selection[i] * (2 ^ CHUNK_SIZE) + value[j])]]
    IN  [i \in 1..Len(st) |-> [c \in 1..Len(st[i]) |-> st[i][c] + state_update[i][c]]]

\* ---------------------------------------------------------------- selection by key
\* (np.sum((keys - key) == 0, axis=1) == NUMBER_OF_KEY_CHUNKS), one bit per row.
key_selection(st, key) ==
    [i \in 1..Len(st) |->
        Bool2Int(SumSeq([j \in 1..Len(key) |-> Bool2Int(KEY(st[i])[j] - key[j] = 0)])
                 = NUMBER_OF_KEY_CHUNKS)]

\* ---------------------------------------------------------------- _replace_impl
replace_indices(st, key, value) ==
    LET selection == key_selection(st, key)
    IN  {selection[i] * (2 ^ CHUNK_SIZE) + value[j] : i \in 1..Len(st), j \in 1..Len(value)}
        \cup
        {(1 - selection[i]) * (2 ^ CHUNK_SIZE) + VALUE(st[i])[j] :
            i \in 1..Len(st), j \in 1..NUMBER_OF_VALUE_CHUNKS}

replace_raises(st, key, value) ==
    \E index \in replace_indices(st, key, value) : ~LutInRange(index)

\* _replace_impl writing the selection into the flag column, as _insert_impl
\* does with its own selection.
_replace_impl_flag_from_selection(st, key, value) ==
    LET selection == key_selection(st, key)
        set_value ==
            [i \in 1..Len(st) |->
                [j \in 1..Len(value) |-> Lut(selection[i] * (2 ^ CHUNK_SIZE) + value[j])]]
        inverse_selection == [i \in 1..Len(st) |-> 1 - selection[i]]
        kept_values ==
            [i \in 1..Len(st) |->
                [j \in 1..NUMBER_OF_VALUE_CHUNKS |->
                    Lut(inverse_selection[i] * (2 ^ CHUNK_SIZE) + VALUE(st[i])[j])]]
        new_values ==
            [i \in 1..Len(st) |->
                [j \in 1..NUMBER_OF_VALUE_CHUNKS |-> kept_values[i][j] + set_value[i][j]]]
    IN  [i \in 1..Len(st) |-> <<selection[i]>> \o KEY(st[i]) \o new_values[i]]

\* _replace_impl with unread read for the lookups outside the table.
_replace_impl_reading(st, key, value, unread) ==
    LET selection == key_selection(st, key)
        set_value ==
            [i \in 1..Len(st) |->
                [j \in 1..Len(value) |->
                    LutReading(selection[i] * (2 ^ CHUNK_SIZE) + value[j], unread)]]
        inverse_selection == [i \in 1..Len(st) |-> 1 - selection[i]]
        kept_values ==
            [i \in 1..Len(st) |->
                [j \in 1..NUMBER_OF_VALUE_CHUNKS |->
                    LutReading(inverse_selection[i] * (2 ^ CHUNK_SIZE) + VALUE(st[i])[j],
                               unread)]]
        new_values ==
            [i \in 1..Len(st) |->
                [j \in 1..NUMBER_OF_VALUE_CHUNKS |-> kept_values[i][j] + set_value[i][j]]]
    IN  [i \in 1..Len(st) |-> <<st[i][FLAG]>> \o KEY(st[i]) \o new_values[i]]

_replace_impl(st, key, value) == _replace_impl_reading(st, key, value, 0)

\* ---------------------------------------------------------------- _query_impl
query_indices(st, key) ==
    LET selection == key_selection(st, key)
    IN  {selection[i] * (2 ^ CHUNK_SIZE) + VALUE(st[i])[j] :
            i \in 1..Len(st), j \in 1..NUMBER_OF_VALUE_CHUNKS}

query_raises(st, key) ==
    \E index \in query_indices(st, key) : ~LutInRange(index)

\* The array [found, *value], with unread read for the lookups outside the
\* table.
_query_impl_reading(st, key, unread) ==
    LET selection == key_selection(st, key)
        found == SumSeq(selection)
        value_selection ==
            [i \in 1..Len(st) |->
                [j \in 1..NUMBER_OF_VALUE_CHUNKS |->
                    LutReading(selection[i] * (2 ^ CHUNK_SIZE) + VALUE(st[i])[j], unread)]]
        value ==
            [j \in 1..NUMBER_OF_VALUE_CHUNKS |->
                SumSeq([i \in 1..Len(st) |-> value_selection[i][j]])]
    IN  <<found>> \o value

_query_impl(st, key) == _query_impl_reading(st, key, 0)

\* ---------------------------------------------------------------- the store
VARIABLES
    state,      \* KeyValueDatabase._state
    last,       \* the last call of the store: its arguments, the table it ran on, its outcome
    inserted,   \* per key, the number of inserts that found a free entry
    codec,      \* the codec exercised on its own: number, width, chunks, decoded
    mask        \* the lookup exercised on its own: selector, chunks, looked up, multiplied

vars == <<state, last, inserted, codec, mask>>

NoCall == [op |-> "init", key |-> 0, value |-> 0, pre |-> ZeroState,
           result |-> <<>>, none |-> FALSE, ret |-> 0, raised |-> FALSE]
CodecIdle == [pc |-> "idle", number |-> 0, width |-> 0, chunks |-> <<>>, decoded |-> 0]
MaskIdle == [pc |-> "idle", selector |-> 0, chunks |-> <<>>, looked |-> <<>>,
             multiplied |-> <<>>]

HasFree(st) == \E i \in 1..Len(st) : st[i][FLAG] = 0

\* KeyValueDatabase.__init__: the state is all zeros.
Init ==
    /\ state = ZeroState
    /\ last = NoCall
    /\ inserted = [k \in KeyInputs \cup WideKeyInputs |-> 0]
    /\ codec = CodecIdle
    /\ mask = MaskIdle

\* What KeyValueDatabase.query computes on the table st when the evaluation
\* of the circuit has the given outcome: the circuit's array, None when
\* result[0] == 0, else decode(result[1:]).
query_outcome_of(st, key, outcome) ==
    LET k == encode_key(key)
        raises == key_shape_raises(k) \/ outcome.raised
        result == IF raises THEN <<>> ELSE _query_impl_reading(st, k, outcome.unread)
        none == ~raises /\ result[1] = 0
    IN  [result |-> result, none |-> none,
         ret |-> IF raises \/ none THEN 0 ELSE decode(Tail(result)),
         raised |-> raises]

\* What KeyValueDatabase.query computes on the table st, a lookup outside the
\* table failing the call.
query_outcome(st, key) ==
    LET k == encode_key(key)
        outside == IF key_shape_raises(k) THEN FALSE ELSE query_raises(st, k)
    IN  query_outcome_of(st, key, [raised |-> outside, unread |-> 0])

\* KeyValueDatabase.insert
insert(key, value) ==
    LET k == encode_key(key)
        v == encode_value(value)
        raises == \/ key_shape_raises(k) \/ value_shape_raises(v)
                  \/ insert_raises(state, k, v)
    IN  /\ state' = IF raises THEN state ELSE _insert_impl(state, k, v)
        /\ last' = [op |-> "insert", key |-> key, value |-> value, pre |-> state,
                    result |-> <<>>, none |-> FALSE, ret |-> 0, raised |-> raises]
        /\ inserted' = IF ~raises /\ HasFree(state)
                       THEN [inserted EXCEPT ![key] = @ + 1]
                       ELSE inserted
        /\ UNCHANGED <<codec, mask>>

\* The table KeyValueDatabase.replace leaves when it runs on the table st, a
\* lookup outside the table failing the call.
replace_table(st, key, value) ==
    LET k == encode_key(key)
        v == encode_value(value)
    IN  IF key_shape_raises(k) \/ value_shape_raises(v) \/ replace_raises(st, k, v)
        THEN st
        ELSE _replace_impl(st, k, v)

\* KeyValueDatabase.replace
replace(key, value) ==
    LET k == encode_key(key)
        v == encode_value(value)
        shape == key_shape_raises(k) \/ value_shape_raises(v)
        outside == IF shape THEN FALSE ELSE replace_raises(state, k, v)
    IN  \E outcome \in LookupOutcomes(outside) :
            LET raises == shape \/ outcome.raised
            IN  /\ state' = IF raises THEN state
                            ELSE IF outside
                                 THEN _replace_impl_reading(state, k, v, outcome.unread)
                                 ELSE _replace_impl(state, k, v)
                /\ last' = [op |-> "replace", key |-> key, value |-> value,
                            pre |-> state, result |-> <<>>, none |-> FALSE, ret |-> 0,
                            raised |-> raises]
                /\ UNCHANGED <<inserted, codec, mask>>

\* query assigning the table like insert and replace do: the entries come
\* back with their values masked by the selection.
query_assigning_state(key) ==
    LET out == query_outcome(state, key)
        selection == key_selection(state, encode_key(key))
    IN  /\ state' = IF out.raised THEN state
                    ELSE [i \in 1..Len(state) |->
                            <<state[i][FLAG]>> \o KEY(state[i])
                            \o [j \in 1..NUMBER_OF_VALUE_CHUNKS |->
                                  Lut(selection[i] * (2 ^ CHUNK_SIZE) + VALUE(state[i])[j])]]
        /\ last' = [op |-> "query", key |-> key, value |-> 0, pre |-> state,
                    result |-> out.result, none |-> out.none, ret |-> out.ret,
                    raised |-> out.raised]
        /\ UNCHANGED <<inserted, codec, mask>>

\* KeyValueDatabase.query: the table is read and not assigned.
query(key) ==
    LET k == encode_key(key)
        outside == IF key_shape_raises(k) THEN FALSE ELSE query_raises(state, k)
    IN  \E outcome \in LookupOutcomes(outside) :
            LET out == query_outcome_of(state, key, outcome)
            IN  /\ state' = state
                /\ last' = [op |-> "query", key |-> key, value |-> 0, pre |-> state,
                            result |-> out.result, none |-> out.none, ret |-> out.ret,
                            raised |-> out.raised]
                /\ UNCHANGED <<inserted, codec, mask>>

Next ==
    \/ \E key \in KeyInputs, value \in ValueInputs : insert(key, value)
    \/ \E key \in KeyInputs, value \in ValueInputs : replace(key, value)
    \/ \E key \in KeyInputs : query(key)

Spec == Init /\ [][Next]_vars

\* The store called with keys and values inside and outside the declared widths.
NextWide ==
    \/ \E key \in WideKeyInputs, value \in WideValueInputs : insert(key, value)
    \/ \E key \in WideKeyInputs, value \in WideValueInputs : replace(key, value)
    \/ \E key \in WideKeyInputs : query(key)

SpecWide == Init /\ [][NextWide]_vars

\* ---------------------------------------------------------------- the codec on its own
CodecWidths == {CHUNK_SIZE * c : c \in 1..MaxCodecChunks}

InitCodec ==
    /\ state = ZeroState
    /\ last = NoCall
    /\ inserted = [k \in KeyInputs \cup WideKeyInputs |-> 0]
    /\ \E width \in CodecWidths : \E number \in 0..(2 ^ width - 1) :
          codec = [pc |-> "start", number |-> number, width |-> width,
                   chunks |-> <<>>, decoded |-> 0]
    /\ mask = MaskIdle

CodecEncode ==
    /\ codec.pc = "start"
    /\ codec' = [codec EXCEPT !.pc = "encoded",
                              !.chunks = encode(codec.number, codec.width)]
    /\ UNCHANGED <<state, last, inserted, mask>>

CodecDecode ==
    /\ codec.pc = "encoded"
    /\ codec' = [codec EXCEPT !.pc = "decoded", !.decoded = decode(codec.chunks)]
    /\ UNCHANGED <<state, last, inserted, mask>>

NextCodec == CodecEncode \/ CodecDecode

SpecCodec == InitCodec /\ [][NextCodec]_vars

\* ---------------------------------------------------------------- the lookup on its own
\* keep_selected_lut[selection * (2 ** CHUNK_SIZE) + chunks] over an array of
\* chunks, as the circuits apply it to a key or a value.
keep_selected_lookup(selector, chunks) ==
    [j \in 1..Len(chunks) |-> Lut(selector * (2 ^ CHUNK_SIZE) + chunks[j])]

\* The arithmetic form of the same selection: selector * chunks.
keep_selected_multiply(selector, chunks) ==
    [j \in 1..Len(chunks) |-> selector * chunks[j]]

InitMask ==
    /\ state = ZeroState
    /\ last = NoCall
    /\ inserted = [k \in KeyInputs \cup WideKeyInputs |-> 0]
    /\ codec = CodecIdle
    /\ \E count \in 1..MaxCodecChunks : \E selector \in 0..1 :
          \E chunks \in [1..count -> 0..(2 ^ CHUNK_SIZE - 1)] :
             mask = [pc |-> "start", selector |-> selector, chunks |-> chunks,
                     looked |-> <<>>, multiplied |-> <<>>]

MaskLookup ==
    /\ mask.pc = "start"
    /\ mask' = [mask EXCEPT !.pc = "looked",
                            !.looked = keep_selected_lookup(mask.selector, mask.chunks)]
    /\ UNCHANGED <<state, last, inserted, codec>>

MaskMultiply ==
    /\ mask.pc = "looked"
    /\ mask' = [mask EXCEPT !.pc = "done",
                            !.multiplied = keep_selected_multiply(mask.selector, mask.chunks)]
    /\ UNCHANGED <<state, last, inserted, codec>>

NextMask == MaskLookup \/ MaskMultiply

SpecMask == InitMask /\ [][NextMask]_vars

\* ---------------------------------------------------------------- properties
Rows == 1..NUMBER_OF_ENTRIES

\* The lowest-index row of st with flag 0.
FirstFree(st) == CHOOSE i \in Rows : st[i][FLAG] = 0 /\ \A j \in 1..(i - 1) : st[j][FLAG] # 0

IsFull(st) == \A i \in Rows : st[i][FLAG] = 1

\* Some live row of st holds the key.
LiveRowHolds(st, key) ==
    \E i \in Rows : st[i][FLAG] = 1 /\ KEY(st[i]) = encode_key(key)

\* The rows of st whose key chunks all equal the chunks of key, whatever the flag.
MatchingRows(st, key) == {i \in Rows : KEY(st[i]) = encode_key(key)}

RECURSIVE SumOver(_, _, _)
\* The sum of value chunk j over the rows of st in the set rows.
SumOver(st, rows, j) ==
    IF rows = {} THEN 0
    ELSE LET i == CHOOSE r \in rows : TRUE
         IN  VALUE(st[i])[j] + SumOver(st, rows \ {i}, j)

\* C1: in every reachable state with a free row, insert(k, v) sets the flag of
\* the lowest-index free row to 1, makes its key chunks the chunks of k and its
\* value chunks the chunks of v, and leaves every other row unchanged.
C1_InsertWritesFirstFree ==
    (last.op = "insert" /\ HasFree(last.pre)) =>
        LET i == FirstFree(last.pre)
        IN  /\ ~last.raised
            /\ state[i][FLAG] = 1
            /\ KEY(state[i]) = encode_key(last.key)
            /\ VALUE(state[i]) = encode_value(last.value)
            /\ \A j \in Rows \ {i} : state[j] = last.pre[j]

\* C2: in every reachable state in which all rows have flag 1, insert(k, v)
\* returns a table equal to the input table in every field and raises nothing.
C2_InsertOnFullIsNoOp ==
    (last.op = "insert" /\ IsFull(last.pre)) => (state = last.pre /\ ~last.raised)

\* An insert ran on a table filled by NUMBER_OF_ENTRIES inserts of distinct keys.
C2_Witness ==
    /\ last.op = "insert"
    /\ IsFull(last.pre)
    /\ \A k \in KeyInputs : inserted[k] <= 1
    /\ Cardinality({k \in KeyInputs : inserted[k] = 1}) = NUMBER_OF_ENTRIES

\* C3: after insert(k, v) on the zeroed table, query(k) returns found = 1 and
\* the value v.
C3_InsertThenQuery ==
    (last.op = "insert" /\ last.pre = ZeroState) =>
        LET out == query_outcome(state, last.key)
        IN  /\ ~out.raised
            /\ out.result[1] = 1
            /\ out.ret = last.value

\* C4: in every reachable state in which k was inserted successfully exactly
\* once, after replace(k, v) query(k) returns v.
C4_ReplaceThenQuery ==
    (last.op = "replace" /\ inserted[last.key] = 1) =>
        LET out == query_outcome(state, last.key)
        IN  /\ ~out.raised
            /\ ~out.none
            /\ out.ret = last.value

\* C5: query(k) for a key that was never inserted, which no live row holds,
\* returns found = 0 and the store returns None.
C5_QueryNotFound ==
    (/\ last.op = "query"
     /\ inserted[last.key] = 0
     /\ ~LiveRowHolds(last.pre, last.key)) =>
        (~last.raised /\ last.result[1] = 0 /\ last.none)

\* C6: replace(k, v) for a key that no live row holds returns a table equal to
\* the input table in every flag, key chunk and value chunk.
C6_ReplaceMissIsNoOp ==
    (last.op = "replace" /\ ~LiveRowHolds(last.pre, last.key)) => state = last.pre

\* C7: replace(k, v) leaves the flag and the key chunks of every row unchanged,
\* leaves the value chunks of every row whose key differs from k unchanged, and
\* makes the value chunks of every row whose key equals k the chunks of v.
\* Stated for the calls that return, so that a violation is a table replace
\* returned and not a lookup that raised.
C7_ReplaceFrame ==
    (last.op = "replace" /\ ~last.raised) =>
        \A i \in Rows :
            /\ state[i][FLAG] = last.pre[i][FLAG]
            /\ KEY(state[i]) = KEY(last.pre[i])
            /\ KEY(last.pre[i]) # encode_key(last.key) => VALUE(state[i]) = VALUE(last.pre[i])
            /\ KEY(last.pre[i]) = encode_key(last.key) => VALUE(state[i]) = encode_value(last.value)

\* C8: query(k) never changes the table, whether or not k is found.
C8_QueryLeavesTable ==
    last.op = "query" => state = last.pre

\* A query that found its key ran on a table that holds entries.
C8_Witness ==
    /\ last.op = "query"
    /\ ~last.raised
    /\ ~last.none
    /\ \E i \in Rows : last.pre[i][FLAG] = 1 /\ VALUE(last.pre[i]) # VALUE(ZeroState[i])

\* C9: query(k) returns found equal to the number of rows, whatever their flag,
\* whose key chunks all equal the chunks of k, and as value the chunk-wise sum
\* of the value chunks of exactly those rows.  Stated for the calls that return.
C9_QueryAggregates ==
    (last.op = "query" /\ ~last.raised) =>
        /\ last.result[1] = Cardinality(MatchingRows(last.pre, last.key))
        /\ \A j \in 1..NUMBER_OF_VALUE_CHUNKS :
              last.result[1 + j] = SumOver(last.pre, MatchingRows(last.pre, last.key), j)

C12_ReplaceIdempotent ==
    last.op = "replace" => replace_table(state, last.key, last.value) = state

KeyInRange(key) == key >= 0 /\ key < 2 ^ KEY_SIZE
ValueInRange(value) == value >= 0 /\ value < 2 ^ VALUE_SIZE

\* The last call passed a key or a value outside its declared width.
LastOutOfRange ==
    \/ last.op \in {"insert", "replace"}
         /\ (~KeyInRange(last.key) \/ ~ValueInRange(last.value))
    \/ last.op = "query" /\ ~KeyInRange(last.key)

\* C13: a store call whose key is not in [0, 2^KEY_SIZE) or whose value is not
\* in [0, 2^VALUE_SIZE) fails with an error and leaves the table unchanged.
C13_OutOfRangeRejected ==
    LastOutOfRange => (last.raised /\ state = last.pre)

\* The lookup-table indices the last call computed on the table it ran on.
LastIndices ==
    CASE last.op = "insert" ->
            insert_indices(last.pre, encode_key(last.key), encode_value(last.value))
      [] last.op = "replace" ->
            replace_indices(last.pre, encode_key(last.key), encode_value(last.value))
      [] last.op = "query" -> query_indices(last.pre, encode_key(last.key))
      [] OTHER -> {}

\* C14: after any sequence of in-range calls from the zeroed table, no call
\* computes a lookup-table index outside [0, 2 * 2^CHUNK_SIZE), and no call
\* raises.
C14_NoLookupOutOfRange ==
    /\ \A index \in LastIndices : index >= 0 /\ index < 2 * (2 ^ CHUNK_SIZE)
    /\ ~last.raised

\* C17: in every reachable state, every row with flag 0 has all its key chunks
\* and all its value chunks equal to 0.
C17_FreeRowsZero ==
    \A i \in Rows : state[i][FLAG] = 0 => state[i] = ZeroState[i]

\* C19: in every reachable state the table has NUMBER_OF_ENTRIES rows of the
\* declared length, every flag is 0 or 1, and every key chunk and every value
\* chunk is in [0, 2^CHUNK_SIZE).
C19_WellFormed ==
    /\ Len(state) = NUMBER_OF_ENTRIES
    /\ \A i \in Rows :
          /\ Len(state[i]) = ROW_LEN
          /\ state[i][FLAG] \in {0, 1}
          /\ \A j \in 1..NUMBER_OF_KEY_CHUNKS : KEY(state[i])[j] \in 0..(2 ^ CHUNK_SIZE - 1)
          /\ \A j \in 1..NUMBER_OF_VALUE_CHUNKS : VALUE(state[i])[j] \in 0..(2 ^ CHUNK_SIZE - 1)

\* The flag column of the table.
Flags(st) == [i \in 1..Len(st) |-> st[i][FLAG]]

\* C16: in insert's scan over the rows of every reachable table, at most one
\* row is selected, a row whose flag is 1 is never selected, and the found
\* accumulator never exceeds 1, so the packed index found * 2 + flag stays in
\* 0..3.
C16_InsertScanSelectsOnce ==
    LET flags == Flags(state)
        selection == insert_selection(flags, 1, 0)
    IN  /\ SumSeq(selection) <= 1
        /\ \A i \in Rows : flags[i] = 1 => selection[i] = 0
        /\ \A i \in 1..(NUMBER_OF_ENTRIES + 1) : insert_found(flags, i) <= 1
        /\ \A i \in Rows : insert_packed(flags, i) \in 0..3

\* An insert has run, and the table it left has a live row before a free row
\* and a free row after the one the scan selects.
C16_Witness ==
    /\ last.op = "insert"
    /\ ~last.raised
    /\ state # last.pre
    /\ \E i \in Rows : state[i][FLAG] = 1
    /\ SumSeq(insert_selection(Flags(state), 1, 0)) = 1

\* The live rows of st whose key chunks are the chunks of key.
LiveRowsHolding(st, key) ==
    {i \in Rows : st[i][FLAG] = 1 /\ KEY(st[i]) = encode_key(key)}

\* C18: when a live row already holds k and a free row exists, insert(k, v2)
\* makes the first free row (1, k, v2) and leaves every other row intact, so
\* one more live row holds k; a following replace(k, w) gives every such row
\* the value w and a following query(k) returns the sum of their values.
C18_InsertDuplicateKey ==
    (/\ last.op = "insert"
     /\ HasFree(last.pre)
     /\ LiveRowHolds(last.pre, last.key)) =>
        LET i == FirstFree(last.pre)
            held == LiveRowsHolding(state, last.key)
            out == query_outcome(state, last.key)
        IN  /\ ~last.raised
            /\ state[i] = <<1>> \o encode_key(last.key) \o encode_value(last.value)
            /\ \A j \in Rows \ {i} : state[j] = last.pre[j]
            /\ Cardinality(held) = Cardinality(LiveRowsHolding(last.pre, last.key)) + 1
            /\ \A w \in ValueInputs : \A j \in held :
                  VALUE(replace_table(state, last.key, w)[j]) = encode_value(w)
            /\ ~out.raised
            /\ \A j \in 1..NUMBER_OF_VALUE_CHUNKS :
                  out.result[1 + j] = SumOver(state, held, j)

\* The number of rows of st with flag 1.
LiveCount(st) == Cardinality({i \in 1..Len(st) : st[i][FLAG] = 1})

\* The rows with flag 1 are the rows 1..LiveCount(st).
OccupiedPrefix(st) ==
    \A i \in 1..Len(st) : st[i][FLAG] = (IF i <= LiveCount(st) THEN 1 ELSE 0)

\* C20: the occupied rows form a prefix of the table; an insert on a table
\* that is not full increases the number m of occupied rows by exactly 1, and
\* replace and query leave m unchanged.
C20_OccupiedPrefix ==
    /\ OccupiedPrefix(state)
    /\ (last.op = "insert" /\ HasFree(last.pre)) =>
            LiveCount(state) = LiveCount(last.pre) + 1
    /\ last.op \in {"replace", "query"} => LiveCount(state) = LiveCount(last.pre)

\* A replace that matched a row ran on a table with an occupied row and a
\* free row, reached by an insert.
C20_Witness ==
    /\ last.op = "replace"
    /\ ~last.raised
    /\ LiveCount(last.pre) >= 1
    /\ HasFree(last.pre)
    /\ \E i \in Rows : key_selection(last.pre, encode_key(last.key))[i] = 1

====
